---------------------------- MODULE Spec2Model ----------------------------
(***************************************************************************)
(* Model of the MCP chatbot demo: the Express server of                    *)
(* mcp-server/server.ts (transport registry, push-channel registry,        *)
(* broadcaster, calculator) and the Angular client facade                  *)
(* (McpService, ChatComponent).                                            *)
(*                                                                         *)
(* Every handler runs to completion on the single-threaded event loop, so  *)
(* one action is one handler invocation (or one continuation after an      *)
(* await that waits for the network).                                      *)
(***************************************************************************)
EXTENDS Integers, Sequences, FiniteSets, TLC

(***************************************************************************)
(* Bounds of the model.                                                    *)
(***************************************************************************)
\* number of session ids randomUUID() may hand out
MaxIds == 3

\* the value of an absent mcp-session-id header / sessionId query parameter
NoId == 0

Ids == 1..MaxIds

\* identifiers a request may carry: absent, issued, or never issued
ReqIds == 0..MaxIds

VARIABLES
    transports,   \* server.ts:23  sessionId -> [kind, obj, started]
    sseClients,   \* server.ts:26  sessionId -> response object of GET /sse
    heartbeats,   \* sessionIds of /sse connections whose setInterval is active
    opened,       \* sessionIds of /sse connections whose close/error listeners exist
    created,      \* sessionIds of the transports whose onclose closure exists
    closed,       \* transport objects on which close() ran or whose stream ended
    broken,       \* /sse response objects whose write() throws
    nextId,       \* next fresh value of randomUUID()
    cacheFresh,   \* dataCache[k].data && now - timestamp < ttl
    uncaught,     \* handlers that ended in an uncaught exception / unhandled rejection
    last          \* what the last handler invocation did (response, writes)

VARIABLES
    content,      \* the text given to McpService.processMessage
    invoked,      \* the handlers that call has invoked, in order
    handled,      \* what handleTextProcessing did, when it is the handler invoked
    toolRequest,  \* a call of a tool: its name and arguments
    toolResult,   \* the result the calculator gave for it
    dataCache,    \* server.ts:54  dataCache.crypto: its data and their age
    cryptoResult  \* what the last call of crypto-prices was asked and returned

VARIABLES
    variant,          \* which shape of ChatComponent runs
    client,           \* McpService.client is not null
    serviceTransport, \* McpService.transport is not null
    isConnected,      \* isConnectedSubject, mirrored by ChatComponent.isConnected
    messages,         \* messagesSubject: the transcript
    loaded,           \* the capability lists that have been loaded
    currentMessage,   \* ChatComponent.currentMessage
    isSending,        \* ChatComponent.isSending
    inflight,         \* texts of the McpService.sendMessage calls awaiting the server
    isConnecting,     \* ChatComponent.isConnecting
    connectStage,     \* the await McpService.connect is suspended at, or idle
    ui                \* the event handled last

serverVars == <<transports, sseClients, heartbeats, opened, created, closed,
                broken, nextId, cacheFresh, uncaught, last>>

dispatcherVars == <<content, invoked, handled>>

calculatorVars == <<toolRequest, toolResult, dataCache, cryptoResult>>

chatVars == <<variant, client, serviceTransport, isConnected, messages, loaded,
              currentMessage, isSending, inflight, isConnecting, connectStage, ui>>

(***************************************************************************)
(* Plain-object registries: obj[key] = value, delete obj[key], obj[key].   *)
(***************************************************************************)
Empty == [k \in {} |-> 0]

\* obj[key] = value with a key that is still undefined
PutUndefinedKey(obj, key, value) ==
    [k \in DOMAIN obj \cup {NoId} |-> IF k = NoId THEN value ELSE obj[k]]

\* obj[key] = value
Put(obj, key, value) ==
    [k \in DOMAIN obj \cup {key} |-> IF k = key THEN value ELSE obj[k]]

\* removal by position, splice(indexOf(key), 1): a missing key removes the
\* last entry
DeleteSplice(obj, key) ==
    IF key \in DOMAIN obj \/ DOMAIN obj = {}
    THEN [k \in DOMAIN obj \ {key} |-> obj[k]]
    ELSE LET lastKey == CHOOSE x \in DOMAIN obj : \A y \in DOMAIN obj : y <= x
         IN [k \in DOMAIN obj \ {lastKey} |-> obj[k]]

\* delete obj[key]: removing a missing key is not an error
Delete(obj, key) ==
    [k \in DOMAIN obj \ {key} |-> obj[k]]

\* the transport object that carries session id sessionId: a transport has
\* one session id for life and an id is drawn once, so the id names the object
Transport(sessionId) == 0 - sessionId

\* !!obj[key]
Has(obj, key) == key \in DOMAIN obj

\* a test of the class that takes every registered transport for a
\* Streamable-HTTP transport
KindOfAnyIsHttp(obj, key) == IF Has(obj, key) THEN "http" ELSE "undefined"

\* obj[key] instanceof ..., which is false of undefined
KindOf(obj, key) == IF Has(obj, key) THEN obj[key].kind ELSE "undefined"

\* request bodies: absent, an initialize request, or a tools/call request
NoBody == [present |-> FALSE, method |-> "", name |-> ""]

Body(method, name) == [present |-> TRUE, method |-> method, name |-> name]

Bodies == {NoBody, Body("initialize", ""), Body("tools/call", "crypto-prices")}

\* the record every handler invocation leaves behind: the request it served
\* (op, sid, body), whether the registry held sid when it started, its answer
\* (status, by whom, to which transport object, a newly issued session id) and
\* the push-channel writes it made
Outcome(op, sid) ==
    [op |-> op, sid |-> sid, body |-> NoBody, found |-> FALSE, status |-> 0,
     by |-> "", target |-> NoId, issued |-> NoId, event |-> "",
     written |-> << >>, failed |-> {}, threw |-> FALSE,
     health |-> "", activeSessions |-> 0]

\* res.status(code).json(...) / res.status(code).send(...) by the route itself
Answer(op, sid, code) ==
    [Outcome(op, sid) EXCEPT !.status = code, !.by = "app"]

\* the cache whose refresh is broadcast (news-headlines repeats the pattern of
\* crypto-prices with the key "news")
CacheKeys == {"crypto"}

(***************************************************************************)
(* broadcastToSSEClients: Object.values(sseClients).forEach with a         *)
(* try/catch around the two writes of each client.  Keys are inserted in   *)
(* increasing order of nextId, which is the iteration order.               *)
(***************************************************************************)
RECURSIVE Ascending(_)
Ascending(S) ==
    IF S = {} THEN << >>
    ELSE LET m == CHOOSE x \in S : \A y \in S : x <= y
         IN <<m>> \o Ascending(S \ {m})

\* Object.values(obj) without its last value
ValuesWithoutLast(obj) ==
    [i \in 1..(Cardinality(DOMAIN obj) - 1) |-> obj[Ascending(DOMAIN obj)[i]]]

\* Object.values(obj) in insertion order
Values(obj) == [i \in 1..Cardinality(DOMAIN obj) |-> obj[Ascending(DOMAIN obj)[i]]]

\* the forEach callback without its catch: a failing write escapes
WriteClientNoCatch(acc, res, bad) ==
    IF res \in bad
    THEN [acc EXCEPT !.threw = TRUE]
    ELSE [acc EXCEPT !.written = Append(@, res)]

\* the forEach callback: try { write; write } catch { console.error }
WriteClient(acc, res, bad) ==
    IF res \in bad
    THEN [acc EXCEPT !.failed = @ \cup {res}]
    ELSE [acc EXCEPT !.written = Append(@, res)]

RECURSIVE ForEachClient(_, _, _)
ForEachClient(clients, acc, bad) ==
    IF clients = << >> \/ acc.threw THEN acc
    ELSE ForEachClient(Tail(clients), WriteClient(acc, Head(clients), bad), bad)

broadcastToSSEClients(clients, bad) ==
    ForEachClient(Values(clients), [written |-> << >>, failed |-> {}, threw |-> FALSE], bad)

\* isInitializeRequest that accepts any JSON-RPC body
isInitializeRequestAnyBody(body) == body.present

\* function isInitializeRequest(body)
isInitializeRequest(body) == body.present /\ body.method = "initialize"

(***************************************************************************)
(* The tool handler that broadcasts (crypto-prices): a valid cache entry   *)
(* is returned as is; otherwise the data is regenerated, the cache         *)
(* refreshed and the new data broadcast.                                   *)
(***************************************************************************)
CacheKeyOf(body) == "crypto"

Refreshes(body) ==
    /\ body.present
    /\ body.method = "tools/call"
    /\ body.name = "crypto-prices"
    /\ ~cacheFresh[CacheKeyOf(body)]

\* the request reached a transport, which hands it to the MCP server
Dispatch(op, sid, code, body) ==
    LET b == broadcastToSSEClients(sseClients, broken)
        o == [Outcome(op, sid) EXCEPT !.body = body, !.found = TRUE,
                                      !.status = code, !.by = "transport",
                                      !.target = transports[sid].obj]
    IN IF Refreshes(body)
       THEN /\ cacheFresh' = [cacheFresh EXCEPT ![CacheKeyOf(body)] = TRUE]
            /\ last' = [o EXCEPT !.event = CacheKeyOf(body) \o "-update",
                                 !.written = b.written, !.failed = b.failed,
                                 !.threw = b.threw]
       ELSE /\ cacheFresh' = cacheFresh
            /\ last' = o

\* the process runs: an unhandled rejection ends it (the default of Node.js)
Running == uncaught = {}

\* a cache entry outlives its ttl
CacheExpire(k) ==
    /\ UNCHANGED <<dispatcherVars, calculatorVars, chatVars>>
    /\ Running
    /\ cacheFresh[k]
    /\ cacheFresh' = [cacheFresh EXCEPT ![k] = FALSE]
    /\ last' = Outcome("expire", NoId)
    /\ UNCHANGED <<transports, sseClients, heartbeats, opened, created, closed,
                   broken, nextId, uncaught>>

(***************************************************************************)
(* GET /sse and the timers and listeners it installs.                      *)
(***************************************************************************)
\* a GET /sse that registers the connection and starts its heartbeat but
\* leaves the connected event for later
GetSseGreetsLater ==
    /\ UNCHANGED <<dispatcherVars, calculatorVars, chatVars>>
    /\ Running
    /\ nextId <= MaxIds
    /\ LET sessionId == nextId
       IN /\ sseClients' = Put(sseClients, sessionId, sessionId)
          /\ heartbeats' = heartbeats \cup {sessionId}
          /\ opened' = opened \cup {sessionId}
          /\ nextId' = nextId + 1
          /\ last' = [Answer("GET /sse", NoId, 200) EXCEPT !.issued = sessionId]
    /\ UNCHANGED <<transports, created, closed, broken, cacheFresh, uncaught>>

GetSse ==
    /\ UNCHANGED <<dispatcherVars, calculatorVars, chatVars>>
    /\ Running
    /\ nextId <= MaxIds
    /\ LET sessionId == nextId
       IN /\ sseClients' = Put(sseClients, sessionId, sessionId)
          /\ heartbeats' = heartbeats \cup {sessionId}
          /\ opened' = opened \cup {sessionId}
          /\ nextId' = nextId + 1
          /\ last' = [Answer("GET /sse", NoId, 200) EXCEPT
                         !.issued = sessionId, !.event = "connected",
                         !.written = <<sessionId>>]
    /\ UNCHANGED <<transports, created, closed, broken, cacheFresh, uncaught>>

\* the setInterval callback of one connection
Heartbeat(sessionId) ==
    /\ UNCHANGED <<dispatcherVars, calculatorVars, chatVars>>
    /\ Running
    /\ sessionId \in heartbeats
    /\ IF sessionId \in broken
       THEN /\ heartbeats' = heartbeats \ {sessionId}
            /\ sseClients' = Delete(sseClients, sessionId)
            /\ last' = [Outcome("heartbeat", sessionId) EXCEPT
                           !.event = "heartbeat", !.failed = {sessionId}]
       ELSE /\ UNCHANGED <<heartbeats, sseClients>>
            /\ last' = [Outcome("heartbeat", sessionId) EXCEPT
                           !.event = "heartbeat", !.written = <<sessionId>>]
    /\ UNCHANGED <<transports, opened, created, closed, broken, nextId,
                   cacheFresh, uncaught>>

\* listeners that clear the heartbeat but leave the channel registered
SseGoneKeepsChannel(op, sessionId) ==
    /\ UNCHANGED <<dispatcherVars, calculatorVars, chatVars>>
    /\ Running
    /\ sessionId \in opened
    /\ heartbeats' = heartbeats \ {sessionId}
    /\ last' = [Outcome(op, sessionId) EXCEPT !.found = Has(sseClients, sessionId)]
    /\ UNCHANGED <<transports, sseClients, opened, created, closed, broken, nextId,
                   cacheFresh, uncaught>>

\* req.on('close') and req.on('error'): the same two statements
SseGone(op, sessionId) ==
    /\ UNCHANGED <<dispatcherVars, calculatorVars, chatVars>>
    /\ Running
    /\ sessionId \in opened
    /\ heartbeats' = heartbeats \ {sessionId}
    /\ sseClients' = Delete(sseClients, sessionId)
    /\ last' = [Outcome(op, sessionId) EXCEPT !.found = Has(sseClients, sessionId)]
    /\ UNCHANGED <<transports, opened, created, closed, broken, nextId,
                   cacheFresh, uncaught>>

SseClose(sessionId) == SseGone("sse close", sessionId)

SseError(sessionId) == SseGone("sse error", sessionId)

\* the socket of a registered push connection starts failing its writes
BreakChannel(sessionId) ==
    /\ UNCHANGED <<dispatcherVars, calculatorVars, chatVars>>
    /\ Running
    /\ Has(sseClients, sessionId)
    /\ sessionId \notin broken
    /\ broken' = broken \cup {sessionId}
    /\ last' = Outcome("break", sessionId)
    /\ UNCHANGED <<transports, sseClients, heartbeats, opened, created, closed,
                   nextId, cacheFresh, uncaught>>

\* the 6-second setInterval callback
TimeTick ==
    /\ UNCHANGED <<dispatcherVars, calculatorVars, chatVars>>
    /\ Running
    /\ IF Cardinality(DOMAIN sseClients) > 0
       THEN LET b == broadcastToSSEClients(sseClients, broken)
            IN /\ last' = [Outcome("tick", NoId) EXCEPT
                              !.event = "time-update", !.written = b.written,
                              !.failed = b.failed, !.threw = b.threw]
               /\ uncaught' = IF b.threw THEN uncaught \cup {"tick"} ELSE uncaught
       ELSE /\ last' = Outcome("tick", NoId)
            /\ uncaught' = uncaught
    /\ UNCHANGED <<transports, sseClients, heartbeats, opened, created, closed,
                   broken, nextId, cacheFresh>>

(***************************************************************************)
(* The session-keyed routes.  The transports themselves are objects of the *)
(* MCP SDK; what the routes rely on is modelled at each call: a            *)
(* Streamable-HTTP transport generates its session id while it handles the *)
(* initialize request and then calls onsessioninitialized; close() of      *)
(* either transport calls its onclose; a DELETE handled by a               *)
(* Streamable-HTTP transport closes it.  Any awaited SDK call may throw.   *)
(* A registry entry is the transport object: its class (kind), its         *)
(* identity (obj) and whether server.connect started it (started).         *)
(***************************************************************************)
\* the bodies that make a difference to a request: POST /mcp reads req.body
\* when there is no session id or when it hands the request to a transport,
\* POST /messages only when it hands the request to a transport; a POST /mcp
\* that names an unregistered session comes with and without an initialize
\* request
PostMcpBodies(sessionId) ==
    IF sessionId = NoId \/ KindOf(transports, sessionId) = "http"
    THEN Bodies
    ELSE IF ~Has(transports, sessionId) THEN {NoBody, Body("initialize", "")}
    ELSE {NoBody}

PostMessagesBodies(sessionId) ==
    IF KindOf(transports, sessionId) = "sse" THEN Bodies ELSE {NoBody}

\* a test for a new session that takes any initialize request for one
NewSessionAnyId(sessionId, body) == isInitializeRequest(body)

\* !sessionId && isInitializeRequest(req.body)
NewSession(sessionId, body) == sessionId = NoId /\ isInitializeRequest(body)

\* what the awaited SDK calls of a request can do, by the branch it takes
PostMcpThrows(sessionId, body) ==
    IF sessionId # NoId /\ KindOf(transports, sessionId) = "http"
    THEN {"ok", "handleRequest throws"}
    ELSE IF NewSession(sessionId, body)
    THEN {"ok", "connect throws", "handleRequest throws",
          "handleRequest throws after init"}
    ELSE {"ok"}

PostMessagesThrows(sessionId) ==
    IF KindOf(transports, sessionId) = "sse" THEN {"ok", "throws"} ELSE {"ok"}

\* app.delete('/mcp') has no try/catch: what becomes of a rejected await is
\* up to the router, which either ignores the promise of the handler (the
\* rejection stays unhandled) or forwards the error to its error handler
DeleteMcpThrows(sessionId) ==
    CASE KindOf(transports, sessionId) = "http" ->
            {"ok", "throws", "throws, router answers", "transport rejects"}
      [] KindOf(transports, sessionId) = "sse" ->
            {"ok", "throws", "throws, router answers"}
      [] OTHER -> {"ok"}

\* app.post('/mcp')
PostMcp(sessionId, body, outcome) ==
    /\ UNCHANGED <<dispatcherVars, calculatorVars, chatVars>>
    /\ Running
    /\ IF sessionId # NoId /\ Has(transports, sessionId)
          /\ KindOf(transports, sessionId) = "http"
       THEN \* reuse the existing transport
            /\ IF outcome = "ok"
               THEN Dispatch("POST /mcp", sessionId, 200, body)
               ELSE /\ last' = [Answer("POST /mcp", sessionId, 500) EXCEPT !.body = body]
                    /\ cacheFresh' = cacheFresh
            /\ UNCHANGED <<transports, created, nextId>>
       ELSE IF NewSession(sessionId, body)
       THEN \* new transport, new McpServer
            /\ nextId <= MaxIds
            /\ LET newId == nextId
                   transport == Transport(newId)
               IN CASE outcome \in {"connect throws", "handleRequest throws"} ->
                         /\ last' = [Answer("POST /mcp", sessionId, 500) EXCEPT !.body = body]
                         /\ UNCHANGED <<transports, created, nextId>>
                    [] outcome = "handleRequest throws after init" ->
                         /\ nextId' = nextId + 1
                         /\ transports' = Put(transports, newId,
                                              [kind |-> "http", obj |-> transport,
                                               started |-> TRUE])
                         /\ created' = created \cup {newId}
                         /\ last' = [Answer("POST /mcp", sessionId, 500) EXCEPT !.body = body]
                    [] OTHER ->
                         /\ nextId' = nextId + 1
                         /\ transports' = Put(transports, newId,
                                              [kind |-> "http", obj |-> transport,
                                               started |-> TRUE])
                         /\ created' = created \cup {newId}
                         /\ last' = [Outcome("POST /mcp", sessionId) EXCEPT
                                        !.body = body,
                                        !.status = 200, !.by = "transport",
                                        !.target = transport, !.issued = newId]
            /\ cacheFresh' = cacheFresh
       ELSE \* invalid request
            /\ last' = [Answer("POST /mcp", sessionId, 400) EXCEPT !.body = body]
            /\ UNCHANGED <<transports, created, nextId, cacheFresh>>
    /\ UNCHANGED <<sseClients, heartbeats, opened, closed, broken, uncaught>>

\* app.get('/mcp')
GetMcp(outcome) ==
    /\ UNCHANGED <<dispatcherVars, calculatorVars, chatVars>>
    /\ Running
    /\ nextId <= MaxIds
    /\ LET sessionId == nextId
           transport == Transport(sessionId)
       IN /\ nextId' = nextId + 1
          /\ transports' = Put(transports, sessionId,
                               [kind |-> "sse", obj |-> transport,
                                started |-> outcome # "connect throws"])
          /\ created' = created \cup {sessionId}
          /\ last' = IF outcome = "connect throws"
                     THEN Answer("GET /mcp", NoId, 500)
                     ELSE [Outcome("GET /mcp", NoId) EXCEPT
                             !.status = 200, !.by = "transport",
                             !.target = transport, !.issued = sessionId]
    /\ UNCHANGED <<sseClients, heartbeats, opened, closed, broken, cacheFresh,
                   uncaught>>

\* app.post('/messages')
PostMessages(sessionId, body, outcome) ==
    /\ UNCHANGED <<dispatcherVars, calculatorVars, chatVars>>
    /\ Running
    /\ IF sessionId = NoId
       THEN /\ last' = [Answer("POST /messages", sessionId, 400) EXCEPT !.body = body]
            /\ cacheFresh' = cacheFresh
       ELSE IF ~Has(transports, sessionId)
       THEN /\ last' = [Answer("POST /messages", sessionId, 404) EXCEPT !.body = body]
            /\ cacheFresh' = cacheFresh
       ELSE IF KindOf(transports, sessionId) = "sse"
       THEN IF outcome = "ok"
            THEN Dispatch("POST /messages", sessionId, 202, body)
            ELSE /\ last' = [Answer("POST /messages", sessionId, 500) EXCEPT !.body = body]
                 /\ cacheFresh' = cacheFresh
       ELSE /\ last' = [Answer("POST /messages", sessionId, 400) EXCEPT !.body = body]
            /\ cacheFresh' = cacheFresh
    /\ UNCHANGED <<transports, sseClients, heartbeats, opened, created, closed,
                   broken, nextId, uncaught>>

\* an onclose that forgets the registry
oncloseKeepsEntry(registry, sessionId) == registry

\* transport.onclose as installed by app.post('/mcp') and app.get('/mcp')
onclose(registry, sessionId) == Delete(registry, sessionId)

\* the guard of app.delete('/mcp') with the registry test left out
InvalidSessionMissingOnly(registry, sessionId) ==
    sessionId = NoId

\* !sessionId || !transports[sessionId]
InvalidSession(registry, sessionId) ==
    sessionId = NoId \/ ~Has(registry, sessionId)

\* app.delete('/mcp')
DeleteMcp(sessionId, outcome) ==
    /\ UNCHANGED <<dispatcherVars, calculatorVars, chatVars>>
    /\ Running
    /\ IF InvalidSession(transports, sessionId)
       THEN /\ last' = Answer("DELETE /mcp", sessionId, 400)
            /\ UNCHANGED <<transports, closed, uncaught>>
       ELSE IF outcome = "throws" \/ ~Has(transports, sessionId)
       THEN \* the awaited call rejects and nothing catches it
            /\ last' = [Outcome("DELETE /mcp", sessionId) EXCEPT
                           !.found = Has(transports, sessionId), !.threw = TRUE]
            /\ uncaught' = uncaught \cup {"DELETE /mcp"}
            /\ UNCHANGED <<transports, closed>>
       ELSE IF outcome = "throws, router answers"
       THEN /\ last' = [Outcome("DELETE /mcp", sessionId) EXCEPT
                           !.found = TRUE, !.status = 500, !.by = "router"]
            /\ UNCHANGED <<transports, closed, uncaught>>
       ELSE IF KindOf(transports, sessionId) = "http"
       THEN \* transport.handleRequest: the transport answers; a DELETE it
            \* accepts closes it, which calls onclose
            IF outcome = "transport rejects"
            THEN /\ last' = [Outcome("DELETE /mcp", sessionId) EXCEPT
                                !.found = TRUE, !.status = 400, !.by = "transport",
                                !.target = transports[sessionId].obj]
                 /\ UNCHANGED <<transports, closed, uncaught>>
            ELSE /\ closed' = closed \cup {transports[sessionId].obj}
                 /\ transports' = onclose(transports, sessionId)
                 /\ last' = [Outcome("DELETE /mcp", sessionId) EXCEPT
                                !.found = TRUE, !.status = 200, !.by = "transport",
                                !.target = transports[sessionId].obj]
                 /\ uncaught' = uncaught
       ELSE \* transport.close(); delete transports[sessionId]
            /\ closed' = closed \cup {transports[sessionId].obj}
            /\ transports' = Delete(onclose(transports, sessionId), sessionId)
            /\ last' = [Answer("DELETE /mcp", sessionId, 200) EXCEPT
                           !.found = TRUE, !.target = transports[sessionId].obj]
            /\ uncaught' = uncaught
    /\ UNCHANGED <<sseClients, heartbeats, opened, created, broken, nextId,
                   cacheFresh>>

\* the SDK closes a transport (its stream ended, or close() ran) and calls
\* the onclose closure, which may happen more than once per transport
TransportClosed(sessionId) ==
    /\ UNCHANGED <<dispatcherVars, calculatorVars, chatVars>>
    /\ Running
    /\ sessionId \in created
    /\ closed' = closed \cup {Transport(sessionId)}
    /\ transports' = onclose(transports, sessionId)
    /\ last' = [Outcome("onclose", sessionId) EXCEPT
                   !.found = Has(transports, sessionId),
                   !.target = Transport(sessionId)]
    /\ UNCHANGED <<sseClients, heartbeats, opened, created, broken, nextId,
                   cacheFresh, uncaught>>

\* app.get('/health')
GetHealth ==
    /\ UNCHANGED <<dispatcherVars, calculatorVars, chatVars>>
    /\ Running
    /\ last' = [Answer("GET /health", NoId, 200) EXCEPT
                   !.health = "healthy",
                   !.activeSessions = Cardinality(DOMAIN transports)]
    /\ UNCHANGED <<transports, sseClients, heartbeats, opened, created, closed,
                   broken, nextId, cacheFresh, uncaught>>


(***************************************************************************)
(* Strings are sequences of one-character strings.                         *)
(***************************************************************************)
UpperLetters == <<"A", "B", "C", "D", "E", "F", "G", "H", "I", "J", "K", "L", "M", "N", "O", "P", "Q", "R", "S", "T", "U", "V", "W", "X", "Y", "Z">>

LowerLetters == <<"a", "b", "c", "d", "e", "f", "g", "h", "i", "j", "k", "l", "m", "n", "o", "p", "q", "r", "s", "t", "u", "v", "w", "x", "y", "z">>

Digits == {"0", "1", "2", "3", "4", "5", "6", "7", "8", "9"}

\* \s of the regular expressions
Whitespace == {" ", "\t", "\n"}

\* [\+\-\*\/]
OperatorSymbols == {"+", "-", "*", "/"}

\* the lower-case letter of each upper-case letter
LowerOf ==
    [c \in {UpperLetters[n] : n \in 1..Len(UpperLetters)} |->
        LowerLetters[CHOOSE n \in 1..Len(UpperLetters) : UpperLetters[n] = c]]

\* String.prototype.toLowerCase
toLowerCase(str) ==
    [i \in 1..Len(str) |->
        IF str[i] \in DOMAIN LowerOf THEN LowerOf[str[i]] ELSE str[i]]

\* String.prototype.includes
includes(str, sub) ==
    \E i \in 0..(Len(str) - Len(sub)) : \A j \in 1..Len(sub) : str[i + j] = sub[j]

\* /\d+\s*[\+\-\*\/]\s*\d+/.test(str)
MathPattern(str) ==
    \E j \in {x \in 1..Len(str) : str[x] \in OperatorSymbols} :
        /\ \E i \in 1..(j - 1) :
              /\ str[i] \in Digits
              /\ \A x \in (i + 1)..(j - 1) : str[x] \in Whitespace
        /\ \E k \in (j + 1)..Len(str) :
              /\ str[k] \in Digits
              /\ \A x \in (j + 1)..(k - 1) : str[x] \in Whitespace

\* the keywords of processMessage
kwCalculate == <<"c", "a", "l", "c", "u", "l", "a", "t", "e">>

kwMath == <<"m", "a", "t", "h">>

kwWeather == <<"w", "e", "a", "t", "h", "e", "r">>

kwUppercase == <<"u", "p", "p", "e", "r", "c", "a", "s", "e">>

kwLowercase == <<"l", "o", "w", "e", "r", "c", "a", "s", "e">>

kwReverse == <<"r", "e", "v", "e", "r", "s", "e">>

kwWordCount == <<"w", "o", "r", "d", " ", "c", "o", "u", "n", "t">>

kwSystem == <<"s", "y", "s", "t", "e", "m">>

kwServerInfo == <<"s", "e", "r", "v", "e", "r", " ", "i", "n", "f", "o">>

kwWhatCanYouDo == <<"w", "h", "a", "t", " ", "c", "a", "n", " ", "y", "o", "u", " ", "d", "o">>

kwHelp == <<"h", "e", "l", "p">>

kwCapabilities == <<"c", "a", "p", "a", "b", "i", "l", "i", "t", "i", "e", "s">>

(***************************************************************************)
(* McpService.processMessage: the cascade of tests on the lower-cased      *)
(* content; each branch returns, so the first test that holds decides.     *)
(***************************************************************************)
IsCalculator(lowerContent) ==
    \/ includes(lowerContent, kwCalculate)
    \/ includes(lowerContent, kwMath)
    \/ MathPattern(lowerContent)

IsWeather(lowerContent) == includes(lowerContent, kwWeather)

IsTextProcessing(lowerContent) ==
    \/ includes(lowerContent, kwUppercase)
    \/ includes(lowerContent, kwLowercase)
    \/ includes(lowerContent, kwReverse)
    \/ includes(lowerContent, kwWordCount)

IsSystemInfo(lowerContent) ==
    \/ includes(lowerContent, kwSystem)
    \/ includes(lowerContent, kwServerInfo)

IsHelp(lowerContent) ==
    \/ includes(lowerContent, kwWhatCanYouDo)
    \/ includes(lowerContent, kwHelp)
    \/ includes(lowerContent, kwCapabilities)

\* the cascade with the weather test moved in front of the calculator test
processMessageWeatherFirst(text) ==
    LET lowerContent == toLowerCase(text)
    IN IF IsWeather(lowerContent) THEN <<"handleWeather">>
       ELSE IF IsCalculator(lowerContent) THEN <<"handleCalculator">>
       ELSE IF IsTextProcessing(lowerContent) THEN <<"handleTextProcessing">>
       ELSE IF IsSystemInfo(lowerContent) THEN <<"handleSystemInfo">>
       ELSE IF IsHelp(lowerContent) THEN <<"getCapabilitiesHelp">>
       ELSE <<"default">>

\* the handlers processMessage invokes for a text, in order of invocation
processMessage(text) ==
    LET lowerContent == toLowerCase(text)
    IN IF IsCalculator(lowerContent) THEN <<"handleCalculator">>
       ELSE IF IsWeather(lowerContent) THEN <<"handleWeather">>
       ELSE IF IsTextProcessing(lowerContent) THEN <<"handleTextProcessing">>
       ELSE IF IsSystemInfo(lowerContent) THEN <<"handleSystemInfo">>
       ELSE IF IsHelp(lowerContent) THEN <<"getCapabilitiesHelp">>
       ELSE <<"default">>

\* words the texts of the dispatcher check are made of
Vocabulary == {
    <<"C", "a", "l", "c", "u", "l", "a", "t", "e">>,
    <<"m", "a", "t", "h">>,
    <<"1", "5">>,
    <<"+", " ", "2", "7">>,
    <<"w", "e", "a", "t", "h", "e", "r">>,
    <<"W", "e", "a", "t", "h", "e", "r", " ", "i", "n">>,
    <<"U", "P", "P", "E", "R", "C", "A", "S", "E">>,
    <<"l", "o", "w", "e", "r", "c", "a", "s", "e">>,
    <<"r", "e", "v", "e", "r", "s", "e">>,
    <<"w", "o", "r", "d">>,
    <<"c", "o", "u", "n", "t">>,
    <<"s", "y", "s", "t", "e", "m">>,
    <<"s", "e", "r", "v", "e", "r">>,
    <<"i", "n", "f", "o">>,
    <<"w", "h", "a", "t", " ", "c", "a", "n", " ", "y", "o", "u", " ", "d", "o">>,
    <<"h", "e", "l", "p">>,
    <<"c", "a", "p", "a", "b", "i", "l", "i", "t", "i", "e", "s">>,
    <<"h", "e", "l", "l", "o">>}

\* number of vocabulary words in a text
MaxWords == 2

\* words joined by single spaces
RECURSIVE Join(_)
Join(ws) ==
    IF Len(ws) = 0 THEN << >>
    ELSE IF Len(ws) = 1 THEN ws[1]
    ELSE ws[1] \o <<" ">> \o Join(Tail(ws))

Texts ==
    {Join(ws) : ws \in UNION {[1..n -> Vocabulary] : n \in 1..MaxWords}}

(***************************************************************************)
(* The calculator: the handler of the MCP tool 'calculator' and the        *)
(* calculator branch of POST /api/tools/call.  Numbers are JavaScript      *)
(* numbers; on the bounded integers of the model +, - and * are exact.     *)
(* Response texts are built as the template literals build them; the       *)
(* check-mark character that ends the MCP text is written "U+2705".        *)
(***************************************************************************)
\* largest magnitude of an operand
MaxNum == 3

Nums == (0 - MaxNum)..MaxNum

Operations == {"add", "subtract", "multiply", "divide"}

DigitChars == <<"0", "1", "2", "3", "4", "5", "6", "7", "8", "9">>

RECURSIVE DigitsOf(_)
DigitsOf(n) ==
    IF n < 10 THEN <<DigitChars[n + 1]>>
    ELSE DigitsOf(n \div 10) \o <<DigitChars[(n % 10) + 1]>>

\* the integer a decimal numeral denotes
RECURSIVE ParseDigits(_, _)
ParseDigits(str, acc) ==
    IF str = << >> THEN acc
    ELSE ParseDigits(Tail(str),
            10 * acc + ((CHOOSE d \in 1..10 : DigitChars[d] = Head(str)) - 1))

\* `${n}` for an integer n
NumberToString(n) ==
    IF n < 0 THEN <<"-">> \o DigitsOf(0 - n) ELSE DigitsOf(n)

\* `${a / b}` for b # 0: the integer when the division is exact, otherwise a
\* decimal expansion, which is kept symbolic as (a/b)
QuotientToString(a, b) ==
    LET abs(n) == IF n < 0 THEN 0 - n ELSE n
        q == abs(a) \div abs(b)
    IN IF abs(a) % abs(b) = 0
       THEN NumberToString(IF (a < 0) = (b < 0) THEN q ELSE 0 - q)
       ELSE <<"(">> \o NumberToString(a) \o <<"/">> \o NumberToString(b) \o <<")">>

\* `${operation}`
OperationToString(operation) ==
    CASE operation = "add" -> <<"a", "d", "d">>
      [] operation = "subtract" -> <<"s", "u", "b", "t", "r", "a", "c", "t">>
      [] operation = "multiply" -> <<"m", "u", "l", "t", "i", "p", "l", "y">>
      [] operation = "divide" -> <<"d", "i", "v", "i", "d", "e">>
      [] OTHER -> <<"u", "n", "d", "e", "f", "i", "n", "e", "d">>

DivisionByZeroText == <<"E", "r", "r", "o", "r", ":", " ", "D", "i", "v", "i", "s", "i", "o", "n", " ", "b", "y", " ", "z", "e", "r", "o">>

\* a tool result: content[0].text, isError, and the HTTP status of the route
ToolResult(route, status, isError, text) ==
    [route |-> route, status |-> status, isError |-> isError, text |-> text]

\* the switch of a calculator with the operands of subtract exchanged
CalculateSwapped(operation, a, b) ==
    CASE operation = "add" -> [isError |-> FALSE, str |-> NumberToString(a + b)]
      [] operation = "subtract" -> [isError |-> FALSE, str |-> NumberToString(b - a)]
      [] operation = "multiply" -> [isError |-> FALSE, str |-> NumberToString(a * b)]
      [] operation = "divide" ->
           IF b = 0 THEN [isError |-> TRUE, str |-> << >>]
           ELSE [isError |-> FALSE, str |-> QuotientToString(a, b)]

\* the switch of the MCP tool handler: the value of result, rendered, or the
\* early return of the division by zero
McpCalculate(operation, a, b) ==
    CASE operation = "add" -> [isError |-> FALSE, str |-> NumberToString(a + b)]
      [] operation = "subtract" -> [isError |-> FALSE, str |-> NumberToString(a - b)]
      [] operation = "multiply" -> [isError |-> FALSE, str |-> NumberToString(a * b)]
      [] operation = "divide" ->
           IF b = 0 THEN [isError |-> TRUE, str |-> << >>]
           ELSE [isError |-> FALSE, str |-> QuotientToString(a, b)]

\* the switch of the REST branch
RestCalculate(operation, a, b) ==
    CASE operation = "add" -> [isError |-> FALSE, str |-> NumberToString(a + b)]
      [] operation = "subtract" -> [isError |-> FALSE, str |-> NumberToString(a - b)]
      [] operation = "multiply" -> [isError |-> FALSE, str |-> NumberToString(a * b)]
      [] operation = "divide" ->
           IF b = 0 THEN [isError |-> TRUE, str |-> << >>]
           ELSE [isError |-> FALSE, str |-> QuotientToString(a, b)]

\* the calculator tool handler registered with the MCP server
CalculatorTool(operation, a, b) ==
    LET r == McpCalculate(operation, a, b)
    IN IF r.isError
       THEN ToolResult("mcp", 200, TRUE, DivisionByZeroText)
       ELSE ToolResult("mcp", 200, FALSE,
               <<"-", "-", ">", " ">> \o NumberToString(a) \o <<" ">>
               \o OperationToString(operation) \o <<" ">> \o NumberToString(b)
               \o <<" ", "=", " ">> \o r.str \o <<" ", "U+2705">>)

NoArgs == [present |-> FALSE, operation |-> "", a |-> 0, b |-> 0]

Args(operation, a, b) == [present |-> TRUE, operation |-> operation, a |-> a, b |-> b]

\* app.post('/api/tools/call'), for the tool names 'calculator' and unknown
ToolsCall(name, args) ==
    IF name = "calculator"
    THEN IF ~args.present
         THEN \* destructuring undefined throws; the catch answers 500
              ToolResult("rest", 500, FALSE, << >>)
         ELSE IF args.operation \notin Operations
         THEN ToolResult("rest", 400, FALSE, << >>)
         ELSE LET r == RestCalculate(args.operation, args.a, args.b)
              IN IF r.isError
                 THEN ToolResult("rest", 200, TRUE, DivisionByZeroText)
                 ELSE ToolResult("rest", 200, FALSE,
                         NumberToString(args.a) \o <<" ">>
                         \o OperationToString(args.operation) \o <<" ">>
                         \o NumberToString(args.b) \o <<" ", "=", " ">> \o r.str)
    ELSE ToolResult("rest", 400, FALSE, << >>)

NoResult == ToolResult("", 0, FALSE, << >>)

CalculatorRequests ==
    {[name |-> "calculator", args |-> Args(op, a, b)] :
        op \in Operations \cup {"modulo"}, a \in Nums, b \in Nums}
    \cup {[name |-> "calculator", args |-> NoArgs],
          [name |-> "unknown-tool", args |-> NoArgs]}

\* dataCache.crypto.ttl, in milliseconds
CryptoTtl == 60000

\* milliseconds past the TTL that the clock of the model runs on
MaxOverdue == 1

\* the symbols argument of a call: absent (the default applies) or given
DefaultSymbols == <<"BTC", "ETH", "ADA">>

SymbolLists == {DefaultSymbols, <<"BTC">>, <<"ETH">>}

\* dataCache.crypto as the module is loaded: data null; age stands for
\* Date.now() - timestamp and matters only once data is set
NoData == [present |-> FALSE, symbols |-> << >>, age |-> 0]

NoPrices == [called |-> FALSE, requested |-> << >>, symbols |-> << >>,
             cached |-> FALSE, age |-> 0]

\* the cache test of the crypto-prices handler
CacheValid(entry) == entry.present /\ entry.age < CryptoTtl

\* the handler of crypto-prices: the entry it leaves in the cache and the
\* symbols of the price lines of its text (the prices themselves are random);
\* its broadcast is part of Dispatch
CryptoPrices(entry, symbols) ==
    IF CacheValid(entry)
    THEN [cache |-> entry,
          result |-> [called |-> TRUE, requested |-> symbols,
                      symbols |-> entry.symbols, cached |-> TRUE, age |-> entry.age]]
    ELSE [cache |-> [present |-> TRUE, symbols |-> symbols, age |-> 0],
          result |-> [called |-> TRUE, requested |-> symbols,
                      symbols |-> symbols, cached |-> FALSE, age |-> 0]]

InitCalculator ==
    /\ toolRequest \in CalculatorRequests
                       \cup {[name |-> "crypto-prices", args |-> NoArgs]}
    /\ toolResult = NoResult
    /\ dataCache = NoData
    /\ cryptoResult = NoPrices

\* a tools/call of 'crypto-prices' through the MCP server
CallCryptoPrices(symbols) ==
    /\ UNCHANGED <<serverVars, dispatcherVars, chatVars>>
    /\ toolRequest.name = "crypto-prices"
    /\ dataCache' = CryptoPrices(dataCache, symbols).cache
    /\ cryptoResult' = CryptoPrices(dataCache, symbols).result
    /\ UNCHANGED <<toolRequest, toolResult>>

\* time passes, up to the next instant that matters to the cache test: the
\* last millisecond at which the entry is valid, and from there on
\* millisecond by millisecond
TimePasses ==
    /\ UNCHANGED <<serverVars, dispatcherVars, chatVars>>
    /\ toolRequest.name = "crypto-prices"
    /\ dataCache.present
    /\ LET later == IF dataCache.age < CryptoTtl - 1 THEN CryptoTtl - 1
                    ELSE dataCache.age + 1
       IN /\ later <= CryptoTtl + MaxOverdue
          /\ dataCache' = [dataCache EXCEPT !.age = later]
    /\ UNCHANGED <<toolRequest, toolResult, cryptoResult>>

\* a tools/call of 'calculator' through the MCP server; the input schema
\* (z.enum, z.number) lets only well-formed arguments reach the handler
CallCalculatorTool ==
    /\ UNCHANGED <<serverVars, dispatcherVars, chatVars>>
    /\ toolResult = NoResult
    /\ toolRequest.name = "calculator"
    /\ toolRequest.args.present
    /\ toolRequest.args.operation \in Operations
    /\ toolResult' = CalculatorTool(toolRequest.args.operation,
                                    toolRequest.args.a, toolRequest.args.b)
    /\ UNCHANGED <<toolRequest, dataCache, cryptoResult>>

\* POST /api/tools/call
PostToolsCall ==
    /\ UNCHANGED <<serverVars, dispatcherVars, chatVars>>
    /\ toolResult = NoResult
    /\ toolResult' = ToolsCall(toolRequest.name, toolRequest.args)
    /\ UNCHANGED <<toolRequest, dataCache, cryptoResult>>

(***************************************************************************)
(* The client facade: McpService and ChatComponent.  The component exists  *)
(* in two shapes: the one of chat.component.ts, which connects in ngOnInit *)
(* and tests isConnected before it sends, and an earlier one, which        *)
(* connects on the first click and leaves that test to the service.        *)
(***************************************************************************)
\* the quick-action buttons
QuickMessages == {
    <<"W", "h", "a", "t", " ", "c", "a", "n", " ", "y", "o", "u", " ", "d", "o", "?">>,
    <<"C", "a", "l", "c", "u", "l", "a", "t", "e", " ", "1", "5", " ", "+", " ", "2", "7">>,
    <<"W", "e", "a", "t", "h", "e", "r", " ", "i", "n", " ", "P", "a", "r", "i", "s">>,
    <<"S", "y", "s", "t", "e", "m", " ", "i", "n", "f", "o">>}

\* what the user types into the input
TypedMessages == {
    <<" ">>,
    <<"h", "e", "l", "l", "o", " ">>,
    <<"8", " ", "/", " ", "0">>,
    <<"M", "a", "t", "h", " ", "0", "/", "0", ".", "0">>}

\* number of messages the transcript of the model may hold
MaxTranscript == 4

Variants == {"connects on init", "connects on click"}

\* String.prototype.trim
RECURSIVE TrimLeft(_)
TrimLeft(str) ==
    IF str # << >> /\ Head(str) \in Whitespace THEN TrimLeft(Tail(str)) ELSE str

RECURSIVE TrimRight(_)
TrimRight(str) ==
    IF str # << >> /\ str[Len(str)] \in Whitespace
    THEN TrimRight(SubSeq(str, 1, Len(str) - 1)) ELSE str

trim(str) == TrimRight(TrimLeft(str))

\* str.replace(/keyword/gi, '')
RECURSIVE RemoveAll(_, _)
RemoveAll(str, keyword) ==
    IF Len(str) < Len(keyword) THEN str
    ELSE IF toLowerCase(SubSeq(str, 1, Len(keyword))) = keyword
    THEN RemoveAll(SubSeq(str, Len(keyword) + 1, Len(str)), keyword)
    ELSE <<Head(str)>> \o RemoveAll(Tail(str), keyword)

\* the operand handleTextProcessing is left with
TextOperand(text) ==
    LET lower == toLowerCase(text)
    IN IF includes(lower, kwUppercase) THEN trim(RemoveAll(text, kwUppercase))
       ELSE IF includes(lower, kwLowercase) THEN trim(RemoveAll(text, kwLowercase))
       ELSE IF includes(lower, kwReverse) THEN trim(RemoveAll(text, kwReverse))
       ELSE trim(RemoveAll(text, kwWordCount))

\* the operation handleTextProcessing chooses, or "" when it finds none
TextOperation(text) ==
    LET lower == toLowerCase(text)
    IN IF includes(lower, kwUppercase) THEN "uppercase"
       ELSE IF includes(lower, kwLowercase) THEN "lowercase"
       ELSE IF includes(lower, kwReverse) THEN "reverse"
       ELSE IF includes(lower, kwWordCount) THEN "word-count"
       ELSE ""

SpecifyOperation == <<"Please specify the text processing operation">>

ProvideText == <<"P", "l", "e", "a", "s", "e", " ", "p", "r", "o", "v", "i", "d", "e", " ", "t", "e", "x", "t", " ", "t", "o", " ", "p", "r", "o", "c", "e", "s", "s">>

\* what a handler did: the callTool requests it sent and the text it
\* returned without the server
Handled(calls, reply) == [calls |-> calls, reply |-> reply]

NotHandled == Handled(<< >>, << >>)

\* a handleTextProcessing without the test of the operand
handleTextProcessingAnyOperand(text) ==
    IF TextOperation(text) = "" THEN Handled(<< >>, SpecifyOperation)
    ELSE Handled(<<[name |-> "text-processor", operation |-> TextOperation(text),
                    text |-> TextOperand(text)]>>, << >>)

\* McpService.handleTextProcessing up to its await
handleTextProcessing(text) ==
    IF TextOperation(text) = "" THEN Handled(<< >>, SpecifyOperation)
    ELSE IF TextOperand(text) = << >> THEN Handled(<< >>, ProvideText)
    ELSE Handled(<<[name |-> "text-processor", operation |-> TextOperation(text),
                    text |-> TextOperand(text)]>>, << >>)

InitDispatcher ==
    /\ content \in Texts
    /\ invoked = << >>
    /\ handled = NotHandled

\* one call of processMessage(content)
Classify ==
    /\ UNCHANGED <<serverVars, calculatorVars, chatVars>>
    /\ invoked = << >>
    /\ invoked' = processMessage(content)
    /\ handled' = IF processMessage(content) = <<"handleTextProcessing">>
                  THEN handleTextProcessing(content)
                  ELSE NotHandled
    /\ UNCHANGED content

\* whether the handler processMessage picks awaits a request to the server
\* (callTool, readResource) or returns its text at once
AwaitsServer(text) ==
    LET handler == processMessage(text)[1]
    IN CASE handler = "handleCalculator" -> MathPattern(text)
         [] handler = "handleWeather" -> TRUE
         [] handler = "handleTextProcessing" -> TextOperand(text) # << >>
         [] handler = "handleSystemInfo" -> TRUE
         [] OTHER -> FALSE

\* an addMessage that puts the new message in front
addMessageInFront(transcript, sender, type, body, re) ==
    <<[sender |-> sender, type |-> type, content |-> body, re |-> re]>> \o transcript

\* McpService.addMessage: the transcript with one more message
addMessage(transcript, sender, type, body, re) ==
    Append(transcript, [sender |-> sender, type |-> type, content |-> body, re |-> re])

Welcome == <<"Welcome!">>

Connected == <<"Connected to MCP server!">>

ConnectFailed == <<"Failed to connect to MCP server">>

Disconnected == <<"Disconnected from MCP server.">>

\* the last position of the run of digits that starts at position i
RECURSIVE DigitRunEnd(_, _)
DigitRunEnd(str, i) ==
    IF i < Len(str) /\ str[i + 1] \in Digits THEN DigitRunEnd(str, i + 1) ELSE i

\* (\d+(?:\.\d+)?) at position i: the last position of the numeral
NumeralEnd(str, i) ==
    LET e == DigitRunEnd(str, i)
    IN IF e + 2 <= Len(str) /\ str[e + 1] = "." /\ str[e + 2] \in Digits
       THEN DigitRunEnd(str, e + 2)
       ELSE e

\* \s* from position i: the first position that holds no whitespace
RECURSIVE SkipWhitespace(_, _)
SkipWhitespace(str, i) ==
    IF i <= Len(str) /\ str[i] \in Whitespace THEN SkipWhitespace(str, i + 1) ELSE i

\* /(\d+(?:\.\d+)?)\s*([\+\-\*\/])\s*(\d+(?:\.\d+)?)/ matches from position i
MatchesAt(str, i) ==
    /\ str[i] \in Digits
    /\ LET o == SkipWhitespace(str, NumeralEnd(str, i) + 1)
       IN /\ o <= Len(str)
          /\ str[o] \in OperatorSymbols
          /\ LET k == SkipWhitespace(str, o + 1)
             IN k <= Len(str) /\ str[k] \in Digits

\* content.match(...): the groups of the leftmost match, or null
mathMatch(str) ==
    IF \E i \in 1..Len(str) : MatchesAt(str, i)
    THEN LET i == CHOOSE x \in 1..Len(str) :
                     MatchesAt(str, x) /\ \A y \in 1..(x - 1) : ~MatchesAt(str, y)
             o == SkipWhitespace(str, NumeralEnd(str, i) + 1)
             k == SkipWhitespace(str, o + 1)
         IN [found |-> TRUE, a |-> SubSeq(str, i, NumeralEnd(str, i)),
             symbol |-> str[o], b |-> SubSeq(str, k, NumeralEnd(str, k))]
    ELSE [found |-> FALSE, a |-> << >>, symbol |-> "", b |-> << >>]

\* parseFloat of a numeral \d+(\.\d+)?.  The numerals of the texts of the
\* model have no fraction digit other than 0, so the value is the value of
\* the digits in front of the point.
parseFloat(str) ==
    LET point == {i \in 1..Len(str) : str[i] = "."}
    IN IF point = {} THEN ParseDigits(str, 0)
       ELSE ParseDigits(SubSeq(str, 1, (CHOOSE i \in point : TRUE) - 1), 0)

operationMap ==
    [symbol \in OperatorSymbols |->
        CASE symbol = "+" -> "add"
          [] symbol = "-" -> "subtract"
          [] symbol = "*" -> "multiply"
          [] OTHER -> "divide"]

FormatHelp == <<"Please provide a calculation">>

CalculatorErrorPrefix == <<"C", "a", "l", "c", "u", "l", "a", "t", "o", "r", " ", "e", "r", "r", "o", "r", ":", " ">>

FailedToFetch == <<"T", "y", "p", "e", "E", "r", "r", "o", "r", ":", " ", "F", "a", "i", "l", "e", "d", " ", "t", "o", " ", "f", "e", "t", "c", "h">>

FailedToCallTool == <<"E", "r", "r", "o", "r", ":", " ", "F", "a", "i", "l", "e", "d", " ", "t", "o", " ", "c", "a", "l", "l", " ", "t", "o", "o", "l">>

\* the answer of POST /api/tools/call to the callTool of handleCalculator
CalculatorResponse(text) ==
    LET m == mathMatch(text)
    IN ToolsCall("calculator",
                 Args(operationMap[m.symbol], parseFloat(m.a), parseFloat(m.b)))

\* `${a / b}` of JavaScript, with no test of b
JsQuotientToString(a, b) ==
    IF b # 0 THEN QuotientToString(a, b)
    ELSE IF a = 0 THEN <<"N", "a", "N">>
    ELSE <<"I", "n", "f", "i", "n", "i", "t", "y">>

\* a handleCalculator that computes the result itself
handleCalculatorLocal(text, ok) ==
    LET m == mathMatch(text)
        a == parseFloat(m.a)
        b == parseFloat(m.b)
    IN IF ~m.found THEN FormatHelp
       ELSE IF m.symbol = "/" THEN JsQuotientToString(a, b)
       ELSE RestCalculate(operationMap[m.symbol], a, b).str

\* McpService.handleCalculator; ok: the fetch of callTool was answered
handleCalculator(text, ok) ==
    LET m == mathMatch(text)
    IN IF ~m.found THEN FormatHelp
       ELSE IF ~ok THEN CalculatorErrorPrefix \o FailedToFetch
       ELSE LET response == CalculatorResponse(text)
            IN IF response.status \notin 200..299
               THEN CalculatorErrorPrefix \o FailedToCallTool
               ELSE response.text

\* the text a handler returns: the text of handleCalculator, and for the other
\* handlers their own text, the text of the server, or the "... error" text
\* of their catch
ReplyText(text, ok) ==
    IF processMessage(text)[1] = "handleCalculator" THEN handleCalculator(text, ok)
    ELSE IF ~AwaitsServer(text) THEN <<"handler text">>
    ELSE IF ok THEN <<"server text">>
    ELSE <<"handler error text">>

\* ChatComponent.sendMessage returns at once, with currentMessage tested
\* but isSending ignored
RejectsSendIgnoringIsSending(shape, message, connected, sending) ==
    \/ trim(message) = << >>
    \/ (shape = "connects on init" /\ ~connected)

\* the first statement of ChatComponent.sendMessage: return at once
RejectsSend(shape, message, connected, sending) ==
    \/ trim(message) = << >>
    \/ (shape = "connects on init" /\ ~connected)
    \/ sending

\* room in the transcript of the model for n more messages besides those
\* that the requests in flight will add
Room(n) ==
    Len(messages) + Len(inflight) + (IF connectStage # "idle" THEN 1 ELSE 0) + n
       <= MaxTranscript

InitChat ==
    /\ variant \in Variants
    /\ client = FALSE
    /\ serviceTransport = FALSE
    /\ isConnected = FALSE
    /\ messages = addMessage(<< >>, "assistant", "text", Welcome, << >>)
    /\ loaded = {}
    /\ currentMessage = << >>
    /\ isSending = FALSE
    /\ inflight = << >>
    /\ isConnecting = (variant = "connects on init")
    /\ connectStage = IF variant = "connects on init" THEN "health" ELSE "idle"
    /\ ui = [op |-> "init"]

\* ChatComponent.sendMessage with currentMessage = message, to the point
\* where it awaits the server or is done
Send(op, message) ==
    /\ UNCHANGED <<serverVars, dispatcherVars, calculatorVars>>
    /\ ui' = [op |-> op]
    /\ UNCHANGED <<variant, client, serviceTransport, isConnected, loaded,
                   isConnecting, connectStage>>
    /\ IF RejectsSend(variant, message, isConnected, isSending)
       THEN /\ currentMessage' = message
            /\ UNCHANGED <<messages, isSending, inflight>>
       ELSE LET sent == IF variant = "connects on init" THEN trim(message) ELSE message
                kept == IF variant = "connects on init" THEN << >> ELSE message
            IN IF ~client
               THEN \* McpService.sendMessage throws; catch, finally
                    /\ currentMessage' = kept
                    /\ isSending' = FALSE
                    /\ UNCHANGED <<messages, inflight>>
               ELSE /\ Room(2)
                    /\ IF AwaitsServer(sent)
                       THEN /\ messages' = addMessage(messages, "user", "text", sent, << >>)
                            /\ inflight' = Append(inflight, sent)
                            /\ isSending' = TRUE
                            /\ currentMessage' = kept
                       ELSE /\ messages' =
                                 addMessage(addMessage(messages, "user", "text", sent, << >>),
                                            "assistant", "text", ReplyText(sent, TRUE), sent)
                            /\ inflight' = inflight
                            /\ isSending' = FALSE
                            /\ currentMessage' = << >>

\* the send button and the Enter key
SendMessage == Send("send", currentMessage)

\* a quick-action button
SendQuickMessage(message) == Send("quick", message)

\* the input field, which is disabled while disconnected or sending
Type(message) ==
    /\ UNCHANGED <<serverVars, dispatcherVars, calculatorVars>>
    /\ isConnected
    /\ ~isSending
    /\ currentMessage' = message
    /\ ui' = [op |-> "type"]
    /\ UNCHANGED <<variant, client, serviceTransport, isConnected, messages,
                   loaded, isSending, inflight, isConnecting, connectStage>>

\* a completion that resets isSending only when the request succeeded
SendResponseBlocksOnFailure(i, ok) ==
    /\ UNCHANGED <<serverVars, dispatcherVars, calculatorVars>>
    /\ i \in 1..Len(inflight)
    /\ messages' = addMessage(messages, "assistant", "text",
                              ReplyText(inflight[i], ok), inflight[i])
    /\ inflight' = [j \in 1..(Len(inflight) - 1) |->
                       IF j < i THEN inflight[j] ELSE inflight[j + 1]]
    /\ isSending' = ~ok
    /\ currentMessage' = IF variant = "connects on init" THEN currentMessage ELSE << >>
    /\ ui' = [op |-> "reply", to |-> inflight[i], ok |-> ok]
    /\ UNCHANGED <<variant, client, serviceTransport, isConnected, loaded,
                   isConnecting, connectStage>>

\* the answer (ok) or the failure of the request a pending
\* McpService.sendMessage awaits, and the rest of both sendMessage methods
SendResponse(i, ok) ==
    /\ UNCHANGED <<serverVars, dispatcherVars, calculatorVars>>
    /\ i \in 1..Len(inflight)
    /\ messages' = addMessage(messages, "assistant", "text",
                              ReplyText(inflight[i], ok), inflight[i])
    /\ inflight' = [j \in 1..(Len(inflight) - 1) |->
                       IF j < i THEN inflight[j] ELSE inflight[j + 1]]
    /\ isSending' = FALSE
    /\ currentMessage' = IF variant = "connects on init" THEN currentMessage ELSE << >>
    /\ ui' = [op |-> "reply", to |-> inflight[i], ok |-> ok]
    /\ UNCHANGED <<variant, client, serviceTransport, isConnected, loaded,
                   isConnecting, connectStage>>

\* the text by which the template tells a pushed time update from a reply
ServerTimeUpdate == <<"S", "e", "r", "v", "e", "r", " ", "T", "i", "m", "e", " ", "U", "p", "d", "a", "t", "e">>

\* ChatComponent.isTimeUpdateMessage of the facade that shows time updates
isTimeUpdateMessage(message) == includes(message.content, ServerTimeUpdate)

\* a time-update event of the push channel arrives at the facade that shows
\* time updates (the one that connects on click) while it is connected: the
\* service appends it to the transcript
PushEvent ==
    /\ UNCHANGED <<serverVars, dispatcherVars, calculatorVars>>
    /\ variant = "connects on click"
    /\ isConnected
    /\ Room(1)
    /\ messages' = addMessage(messages, "assistant", "text", ServerTimeUpdate, << >>)
    /\ ui' = [op |-> "push"]
    /\ UNCHANGED <<variant, client, serviceTransport, isConnected, loaded,
                   currentMessage, isSending, inflight, isConnecting, connectStage>>

\* ChatComponent.clearChat
ClearChat ==
    /\ UNCHANGED <<serverVars, dispatcherVars, calculatorVars>>
    /\ messages' = << >>
    /\ ui' = [op |-> "clear"]
    /\ UNCHANGED <<variant, client, serviceTransport, isConnected, loaded,
                   currentMessage, isSending, inflight, isConnecting, connectStage>>

\* ChatComponent.toggleConnection; its button is disabled while connecting
ToggleConnection ==
    /\ UNCHANGED <<serverVars, dispatcherVars, calculatorVars>>
    /\ ~isConnecting
    /\ ui' = [op |-> "toggle"]
    /\ IF isConnected
       THEN \* McpService.disconnect
            IF client /\ serviceTransport
            THEN /\ client' = FALSE
                 /\ serviceTransport' = FALSE
                 /\ isConnected' = FALSE
                 /\ Room(1)
                 /\ messages' = addMessage(messages, "assistant", "text",
                                           Disconnected, << >>)
                 /\ UNCHANGED <<variant, loaded, currentMessage, isSending,
                                inflight, isConnecting, connectStage>>
            ELSE UNCHANGED <<variant, client, serviceTransport, isConnected,
                             messages, loaded, currentMessage, isSending,
                             inflight, isConnecting, connectStage>>
       ELSE \* McpService.connect up to the fetch of /health
            /\ connectStage = "idle"
            /\ Room(1)
            /\ isConnecting' = TRUE
            /\ connectStage' = "health"
            /\ UNCHANGED <<variant, client, serviceTransport, isConnected,
                           messages, loaded, currentMessage, isSending, inflight>>

\* a connect that does not test healthCheck.ok
HealthResponseIgnoresOk(ok) ==
    /\ UNCHANGED <<serverVars, dispatcherVars, calculatorVars>>
    /\ connectStage = "health"
    /\ ui' = [op |-> "health", ok |-> ok, threw |-> FALSE]
    /\ isConnecting' = FALSE
    /\ client' = TRUE
    /\ isConnected' = TRUE
    /\ connectStage' = "tools"
    /\ UNCHANGED messages
    /\ UNCHANGED <<variant, serviceTransport, loaded, currentMessage, isSending,
                   inflight>>

\* the answer to the fetch of /health and McpService.connect from there to
\* its next await; on a failed probe connect adds its error message and
\* rethrows (threw) to the component, which resets isConnecting
HealthResponse(ok) ==
    /\ UNCHANGED <<serverVars, dispatcherVars, calculatorVars>>
    /\ connectStage = "health"
    /\ ui' = [op |-> "health", ok |-> ok, threw |-> ~ok]
    /\ isConnecting' = FALSE
    /\ IF ok
       THEN /\ client' = TRUE
            /\ isConnected' = TRUE
            /\ connectStage' = "tools"
            /\ UNCHANGED messages
       ELSE /\ messages' = addMessage(messages, "assistant", "error",
                                      ConnectFailed, << >>)
            /\ connectStage' = "idle"
            /\ UNCHANGED <<client, isConnected>>
    /\ UNCHANGED <<variant, serviceTransport, loaded, currentMessage, isSending,
                   inflight>>

\* the answer to listTools, listResources or listPrompts in
\* McpService.loadCapabilities; a failure ends the loading, and connect
\* goes on to its last message either way
CapabilityResponse(ok) ==
    /\ UNCHANGED <<serverVars, dispatcherVars, calculatorVars>>
    /\ connectStage \in {"tools", "resources", "prompts"}
    /\ ui' = [op |-> "capability"]
    /\ IF ok /\ connectStage # "prompts"
       THEN /\ loaded' = loaded \cup {connectStage}
            /\ connectStage' = IF connectStage = "tools" THEN "resources" ELSE "prompts"
            /\ UNCHANGED messages
       ELSE /\ loaded' = IF ok THEN loaded \cup {connectStage} ELSE loaded
            /\ connectStage' = "idle"
            /\ messages' = addMessage(messages, "assistant", "text", Connected, << >>)
    /\ UNCHANGED <<variant, client, serviceTransport, isConnected, currentMessage,
                   isSending, inflight, isConnecting>>

NextChat ==
    \/ SendMessage
    \/ \E message \in QuickMessages : SendQuickMessage(message)
    \/ \E message \in TypedMessages : Type(message)
    \/ \E i \in 1..2, ok \in BOOLEAN : SendResponse(i, ok)
    \/ ClearChat
    \/ ToggleConnection
    \/ \E ok \in BOOLEAN : HealthResponse(ok)
    \/ \E ok \in BOOLEAN : CapabilityResponse(ok)
    \/ PushEvent

(***************************************************************************)
(* The server: state after the module is loaded, and its handlers.         *)
(***************************************************************************)
InitServer ==
    /\ transports = Empty
    /\ sseClients = Empty
    /\ heartbeats = {}
    /\ opened = {}
    /\ created = {}
    /\ closed = {}
    /\ broken = {}
    /\ nextId = 1
    /\ cacheFresh = [k \in CacheKeys |-> FALSE]
    /\ uncaught = {}
    /\ last = Outcome("listen", NoId)

NextServer ==
    \/ GetSse
    \/ \E sessionId \in Ids : Heartbeat(sessionId)
    \/ \E sessionId \in Ids : SseClose(sessionId)
    \/ \E sessionId \in Ids : SseError(sessionId)
    \/ \E sessionId \in Ids : BreakChannel(sessionId)
    \/ TimeTick
    \/ \E k \in CacheKeys : CacheExpire(k)
    \/ \E sessionId \in ReqIds :
          \E body \in PostMcpBodies(sessionId) :
          \E outcome \in PostMcpThrows(sessionId, body) :
             PostMcp(sessionId, body, outcome)
    \/ \E outcome \in {"ok", "connect throws"} : GetMcp(outcome)
    \/ \E sessionId \in ReqIds :
          \E body \in PostMessagesBodies(sessionId) :
          \E outcome \in PostMessagesThrows(sessionId) :
             PostMessages(sessionId, body, outcome)
    \/ \E sessionId \in ReqIds :
          \E outcome \in DeleteMcpThrows(sessionId) :
             DeleteMcp(sessionId, outcome)
    \/ \E sessionId \in Ids : TransportClosed(sessionId)
    \/ GetHealth

vars == <<serverVars, dispatcherVars, calculatorVars, chatVars>>

\* the parts that a specification leaves idle
IdleServer == InitServer

IdleDispatcher == content = << >> /\ invoked = << >> /\ handled = NotHandled

IdleCalculator ==
    /\ toolRequest = [name |-> "", args |-> NoArgs]
    /\ toolResult = NoResult
    /\ dataCache = NoData
    /\ cryptoResult = NoPrices

IdleChat ==
    /\ variant = "connects on init"
    /\ client = FALSE
    /\ serviceTransport = FALSE
    /\ isConnected = FALSE
    /\ messages = << >>
    /\ loaded = {}
    /\ currentMessage = << >>
    /\ isSending = FALSE
    /\ inflight = << >>
    /\ isConnecting = FALSE
    /\ connectStage = "idle"
    /\ ui = [op |-> "init"]

Init == InitServer /\ IdleDispatcher /\ IdleCalculator /\ IdleChat

Spec == Init /\ [][NextServer]_vars

InitDispatcherOnly == InitDispatcher /\ IdleServer /\ IdleCalculator /\ IdleChat

NextDispatcher == Classify

SpecDispatcher == InitDispatcherOnly /\ [][NextDispatcher]_vars

InitCalculatorOnly == InitCalculator /\ IdleServer /\ IdleDispatcher /\ IdleChat

NextCalculator ==
    \/ CallCalculatorTool
    \/ PostToolsCall
    \/ \E symbols \in SymbolLists : CallCryptoPrices(symbols)
    \/ TimePasses

SpecCalculator == InitCalculatorOnly /\ [][NextCalculator]_vars

InitChatOnly == InitChat /\ IdleServer /\ IdleDispatcher /\ IdleCalculator

SpecChat == InitChatOnly /\ [][NextChat]_vars

(***************************************************************************)
(* Properties of the server.                                               *)
(***************************************************************************)
BroadcastEvents == {"time-update", "crypto-update"}

InSeq(x, seq) == \E i \in 1..Len(seq) : seq[i] = x

PostOps == {"POST /mcp", "POST /messages"}

\* C2: when a broadcast meets a channel whose write fails, every other
\* registered channel is still written the event, and nothing is thrown to the
\* caller of the broadcast (the timer or the tool handler).
C2_BroadcastSurvivesFailure ==
    [][last'.event \in BroadcastEvents =>
          /\ \A c \in DOMAIN sseClients :
                sseClients[c] \notin broken => InSeq(sseClients[c], last'.written)
          /\ ~last'.threw
          /\ uncaught' = uncaught]_vars

\* a broadcast in which a channel failed and a channel after it was written
C2_Witness ==
    /\ last.event \in BroadcastEvents
    /\ \E f \in last.failed : \E i \in 1..Len(last.written) : f < last.written[i]

\* C3: a push channel whose write failed during a broadcast is absent from
\* sseClients once that broadcast has finished.
C3_FailedChannelDeregistered ==
    last.event \in BroadcastEvents =>
       \A c \in last.failed : ~Has(sseClients, c)

\* C4: a session registered under an identifier is found under it, with the
\* transport object that was registered, until it is removed; a request that
\* reaches a transport reaches that object; after the removal a lookup finds
\* nothing (POST /mcp answers 400, POST /messages answers 404).
C4_RegistryRoundTrip ==
    /\ [](\A sid \in created :
            IF Transport(sid) \in closed
            THEN ~Has(transports, sid)
            ELSE Has(transports, sid) /\ transports[sid].obj = Transport(sid))
    /\ [][/\ (last'.op \in PostOps /\ last'.by = "transport" /\ last'.sid # NoId)
               => (last'.sid \in created /\ last'.target = Transport(last'.sid))
          /\ (last'.op \in PostOps /\ last'.sid \in created
                 /\ Transport(last'.sid) \in closed)
               => /\ last'.by = "app"
                  /\ last'.status = IF last'.op = "POST /mcp" THEN 400 ELSE 404]_vars

\* a lookup of a removed session answered 404 while another session is
\* still registered
C4_Witness ==
    /\ last.op = "POST /messages"
    /\ last.status = 404
    /\ last.sid \in created
    /\ Transport(last.sid) \in closed
    /\ \E sid \in DOMAIN transports : transports[sid].obj = Transport(sid)

RemovalOps == {"sse close", "sse error", "onclose"}

\* C5: removing an identifier leaves every other entry of both registries as
\* it was, and removing one that is not registered (a close after an error
\* on the same push connection, an onclose after the entry is gone) changes
\* nothing and raises nothing.
C5_RemovalIdempotent ==
    [][last'.op \in RemovalOps =>
          /\ \A k \in DOMAIN transports \ {last'.sid} :
                Has(transports', k) /\ transports'[k] = transports[k]
          /\ \A k \in DOMAIN sseClients \ {last'.sid} :
                Has(sseClients', k) /\ sseClients'[k] = sseClients[k]
          /\ uncaught' = uncaught
          /\ ~last'.threw
          /\ (last'.op = "onclose" /\ ~Has(transports, last'.sid))
               => transports' = transports
          /\ (last'.op # "onclose" /\ ~Has(sseClients, last'.sid))
               => sseClients' = sseClients]_vars

\* an error event for a push connection that is already gone, while another
\* connection is registered
C5_Witness ==
    /\ last.op = "sse error"
    /\ ~last.found
    /\ DOMAIN sseClients # {}

\* C6: POST /mcp without a session id and with a body that is not an
\* initialize request is answered 400 by the route, creates no transport or
\* session and leaves the registry as it was.
C6_NoSessionNoInit ==
    [][(/\ last'.op = "POST /mcp"
        /\ last'.sid = NoId
        /\ ~(last'.body.present /\ last'.body.method = "initialize"))
       => /\ last'.status = 400
          /\ last'.by = "app"
          /\ last'.issued = NoId
          /\ transports' = transports
          /\ created' = created
          /\ nextId' = nextId]_vars

\* a tools/call posted without a session id, answered 400, with a session
\* registered
C6_Witness ==
    /\ last.op = "POST /mcp"
    /\ last.sid = NoId
    /\ last.body.present
    /\ last.body.method = "tools/call"
    /\ last.status = 400
    /\ DOMAIN transports # {}

\* C7: a DELETE /mcp for a registered session that is answered 200 leaves
\* the identifier out of the registry and its transport closed, for both
\* kinds of transport; the identifier never comes back, and every later
\* request that carries it is answered as an unknown session.
C7_TeardownRemoves ==
    /\ [][(last'.op = "DELETE /mcp" /\ last'.status = 200)
            => /\ Has(transports, last'.sid)
               /\ ~Has(transports', last'.sid)
               /\ transports[last'.sid].obj \in closed']_vars
    /\ [][\A sid \in Ids :
            (sid \in created /\ ~Has(transports, sid)) => ~Has(transports', sid)]_vars
    /\ [][(/\ last'.op \in PostOps \cup {"DELETE /mcp"}
           /\ last'.sid \in created
           /\ ~Has(transports, last'.sid))
          => /\ last'.by = "app"
             /\ last'.status \in {400, 404}
             /\ transports' = transports]_vars

\* a Streamable-HTTP session torn down with 200
C7_Witness ==
    /\ last.op = "DELETE /mcp"
    /\ last.status = 200
    /\ last.by = "transport"
    /\ ~Has(transports, last.sid)
    /\ last.target \in closed

Categories == <<"handleCalculator", "handleWeather", "handleTextProcessing",
                "handleSystemInfo", "getCapabilitiesHelp", "default">>

Satisfies(category, lowerContent) ==
    CASE category = "handleCalculator" -> IsCalculator(lowerContent)
      [] category = "handleWeather" -> IsWeather(lowerContent)
      [] category = "handleTextProcessing" -> IsTextProcessing(lowerContent)
      [] category = "handleSystemInfo" -> IsSystemInfo(lowerContent)
      [] category = "getCapabilitiesHelp" -> IsHelp(lowerContent)
      [] OTHER -> TRUE

\* C9: processMessage invokes exactly one handler, the one of the earliest
\* category (calculator, weather, text-transform, system-info, help,
\* fallback) whose predicate the text satisfies; a text with a calculate
\* keyword and a weather keyword goes to the calculator.
C9_FirstMatchWins ==
    invoked # << >> =>
       LET lowerContent == toLowerCase(content)
           first == CHOOSE i \in 1..Len(Categories) :
                       /\ Satisfies(Categories[i], lowerContent)
                       /\ \A j \in 1..(i - 1) : ~Satisfies(Categories[j], lowerContent)
       IN /\ Len(invoked) = 1
          /\ invoked[1] = Categories[first]
          /\ (includes(lowerContent, kwCalculate) /\ includes(lowerContent, kwWeather))
               => invoked = <<"handleCalculator">>

\* a text with a weather keyword in front of a calculate keyword, classified
C9_Witness ==
    /\ invoked = <<"handleCalculator">>
    /\ includes(toLowerCase(content), kwCalculate)
    /\ includes(toLowerCase(content), kwWeather)
    /\ content[1] = "W"

(***************************************************************************)
(* Properties of the calculator.                                           *)
(***************************************************************************)
IsNumeral(str) ==
    LET ds == IF str # << >> /\ Head(str) = "-" THEN Tail(str) ELSE str
    IN ds # << >> /\ \A i \in 1..Len(ds) : ds[i] \in Digits

ParseNumber(str) ==
    IF Head(str) = "-" THEN 0 - ParseDigits(Tail(str), 0) ELSE ParseDigits(str, 0)

\* what a reader takes as the result: the word after the "=" of the text
AfterEquals(text) ==
    LET eq == CHOOSE i \in 1..Len(text) : text[i] = "="
        start == eq + 2
        stop == IF \E i \in start..Len(text) : text[i] = " "
                THEN (CHOOSE i \in start..Len(text) :
                        text[i] = " " /\ \A j \in start..(i - 1) : text[j] # " ") - 1
                ELSE Len(text)
    IN SubSeq(text, start, stop)

Exact(operation, a, b) ==
    CASE operation = "add" -> a + b
      [] operation = "subtract" -> a - b
      [] OTHER -> a * b

\* C10: for add, subtract and multiply the result reported by the MCP tool
\* handler and by the REST branch is a + b, a - b, a * b; a division by
\* zero is answered with isError and an error text that claims no number.
C10_CalculatorExact ==
    (toolResult # NoResult /\ toolRequest.name = "calculator"
       /\ toolRequest.args.present) =>
       LET operation == toolRequest.args.operation
           a == toolRequest.args.a
           b == toolRequest.args.b
       IN /\ operation \in {"add", "subtract", "multiply"} =>
               /\ toolResult.status = 200
               /\ ~toolResult.isError
               /\ \E i \in 1..Len(toolResult.text) : toolResult.text[i] = "="
               /\ IsNumeral(AfterEquals(toolResult.text))
               /\ ParseNumber(AfterEquals(toolResult.text)) = Exact(operation, a, b)
          /\ (operation = "divide" /\ b = 0) =>
               /\ toolResult.status = 200
               /\ toolResult.isError
               /\ toolResult.text # << >>
               /\ \A i \in 1..Len(toolResult.text) : toolResult.text[i] \notin Digits

\* the REST branch answered a subtraction with a negative result
C10_Witness ==
    /\ toolResult.route = "rest"
    /\ toolRequest.args.operation = "subtract"
    /\ toolRequest.args.a < toolRequest.args.b
    /\ toolResult.status = 200
    /\ IsNumeral(AfterEquals(toolResult.text))

(***************************************************************************)
(* Properties of the client facade.                                        *)
(***************************************************************************)
\* C1: at most one McpService.sendMessage call is in flight, isSending is
\* true exactly while one is, and a send or quick action that arrives while
\* isSending is true starts no call and adds no message.
C1_OneOutstandingSend ==
    /\ [](Len(inflight) <= 1 /\ (isSending <=> Len(inflight) = 1))
    /\ [][(isSending /\ ui'.op \in {"send", "quick"})
            => (inflight' = inflight /\ messages' = messages /\ isSending')]_vars

\* a quick action pressed while a send is in flight: it only replaced the
\* input text
C1_Witness ==
    /\ ui.op = "quick"
    /\ isSending
    /\ Len(inflight) = 1
    /\ currentMessage \in QuickMessages
    /\ inflight[1] # currentMessage

startsWith(str, prefix) ==
    Len(prefix) <= Len(str) /\ SubSeq(str, 1, Len(prefix)) = prefix

\* the expression handleCalculator extracts is a division by zero
DividesByZero(text) ==
    LET m == mathMatch(text)
    IN m.found /\ m.symbol = "/" /\ parseFloat(m.b) = 0

\* C11: when a message that is classified as calculator and whose extracted
\* expression divides by zero is answered, the reply appended to the
\* transcript is an error text ("Error: Division by zero" when the server
\* answered) with no number, NaN or Infinity in it, and the server answers
\* that call with a 2xx response that carries isError.
C11_DivisionByZeroEndToEnd ==
    [][(/\ ui'.op = "reply"
        /\ processMessage(ui'.to)[1] = "handleCalculator"
        /\ DividesByZero(ui'.to))
       => LET reply == messages'[Len(messages')]
              response == CalculatorResponse(ui'.to)
          IN /\ Len(messages') = Len(messages) + 1
             /\ reply.sender = "assistant"
             /\ \/ startsWith(reply.content, <<"E", "r", "r", "o", "r", ":", " ">>)
                \/ startsWith(reply.content, <<"C", "a", "l", "c", "u", "l", "a", "t", "o", "r", " ", "e", "r", "r", "o", "r", ":", " ">>)
             /\ \A i \in 1..Len(reply.content) : reply.content[i] \notin Digits
             /\ ~includes(reply.content, <<"N", "a", "N">>)
             /\ ~includes(reply.content, <<"I", "n", "f", "i", "n", "i", "t", "y">>)
             /\ ui'.ok => reply.content = DivisionByZeroText
             /\ response.status \in 200..299
             /\ response.isError]_vars

\* the server answered "Math 0/0.0", and the reply is its error text
C11_Witness ==
    /\ ui.op = "reply"
    /\ ui.ok
    /\ DividesByZero(ui.to)
    /\ parseFloat(mathMatch(ui.to).a) = 0
    /\ Len(mathMatch(ui.to).b) = 3
    /\ messages # << >>
    /\ messages[Len(messages)].content = DivisionByZeroText

\* C12: a send or quick action with a text to send that arrives while the
\* facade is not connected, or while a send is in flight, starts no request,
\* appends no user message, and shows the user an error message (a message
\* of type error, the only error the template renders).
C12_RejectedSendShowsError ==
    [][(/\ ui'.op \in {"send", "quick"}
        /\ ui'.op = "send" => trim(currentMessage) # << >>
        /\ (~isConnected \/ isSending))
       => /\ inflight' = inflight
          /\ \A i \in (Len(messages) + 1)..Len(messages') : messages'[i].sender # "user"
          /\ Len(messages') = Len(messages) + 1
          /\ messages'[Len(messages')].type = "error"]_vars

\* C13: every step of the facade other than clearChat leaves the previous
\* transcript as a prefix of the new one (nothing changed, reordered or
\* removed), and clearChat leaves the transcript empty.
C13_TranscriptAppendOnly ==
    [][IF ui'.op = "clear"
       THEN messages' = << >>
       ELSE /\ Len(messages') >= Len(messages)
            /\ SubSeq(messages', 1, Len(messages)) = messages]_vars

\* a reply that arrived after the transcript was cleared and a connection
\* message was appended: it is the last of two messages
C13_Witness ==
    /\ ui.op = "reply"
    /\ Len(messages) = 2
    /\ messages[1].content = Connected
    /\ messages[2].re # << >>
    /\ messages[2].sender = "assistant"

(***************************************************************************)
(* Further properties of the server.                                       *)
(***************************************************************************)
\* C14: once the close or error event of a push connection has been handled
\* the channel is neither registered nor has a heartbeat, it stays so, and
\* broadcasts and heartbeats write only to channels that are registered or
\* have a heartbeat when they run: a closed channel is written no later event.
C14_ClosedChannelDropped ==
    /\ [][last'.op \in {"sse close", "sse error"}
            => /\ ~Has(sseClients', last'.sid)
               /\ last'.sid \notin heartbeats']_vars
    /\ [][\A c \in opened :
            /\ ~Has(sseClients, c) => ~Has(sseClients', c)
            /\ c \notin heartbeats => c \notin heartbeats']_vars
    /\ [][\A i \in 1..Len(last'.written) :
            /\ last'.event \in BroadcastEvents
                  => \E c \in DOMAIN sseClients : sseClients[c] = last'.written[i]
            /\ last'.event = "heartbeat" => last'.written[i] \in heartbeats]_vars

\* a time update written to a channel while an older channel, whose socket
\* never failed, is gone
C14_Witness ==
    /\ last.event = "time-update"
    /\ last.written # << >>
    /\ \E c \in opened \ broken :
          /\ ~Has(sseClients, c)
          /\ c \notin heartbeats
          /\ c < last.written[1]

\* C15: a request that fails while it establishes a channel (GET /mcp or an
\* initializing POST /mcp answered 500 by the catch of the route) leaves no
\* new entry in the transport registry.
C15_RegisteredOnlyOnHandshake ==
    [][(/\ last'.op \in {"GET /mcp", "POST /mcp"}
        /\ last'.sid = NoId
        /\ last'.status = 500)
       => DOMAIN transports' \subseteq DOMAIN transports]_vars

\* C16: POST /api/tools/call answers every protocol error of the client (an
\* unknown tool name, an operation that is none of the four, no arguments
\* object) with a 4xx status.
C16_ProtocolErrorsAre4xx ==
    (/\ toolResult.route = "rest"
     /\ \/ toolRequest.name # "calculator"
        \/ ~toolRequest.args.present
        \/ toolRequest.args.operation \notin Operations)
    => toolResult.status \in 400..499

\* C17: no request ends in an uncaught exception or an unhandled rejection:
\* whatever an awaited call throws, the route answers.
C17_NoUncaughtException ==
    /\ ~last.threw
    /\ uncaught = {}

\* C18: the activeSessions of every answer of GET /health is the number of
\* sessions whose handshake completed and whose transport has not been
\* closed or torn down since, and its status is 'healthy'.
C18_HealthCountsActiveSessions ==
    last.op = "GET /health" =>
       /\ last.health = "healthy"
       /\ last.activeSessions =
             Cardinality({sid \in created :
                            /\ Has(transports, sid)
                            /\ transports[sid].started
                            /\ Transport(sid) \notin closed})

SessionOps == {"POST /mcp", "GET /mcp", "POST /messages", "DELETE /mcp", "onclose"}

PushOps == {"GET /sse", "sse close", "sse error", "heartbeat", "tick"}

\* the route of a request answered 400 and handed nothing to a transport
RejectedByRoute(o) ==
    /\ o.status = 400
    /\ o.by = "app"
    /\ o.target = NoId
    /\ o.event = ""

\* C19: POST /mcp with the id of a legacy-SSE session and POST /messages
\* with the id of a Streamable-HTTP session are answered 400 by the route,
\* reach no transport and change no registry; a step changes no entry of
\* another session (a new key is a fresh id), session routes leave the
\* push registry alone and push events leave the transport registry alone.
C19_KindsCoexist ==
    /\ [][(/\ last'.op = "POST /mcp"
            /\ Has(transports, last'.sid)
            /\ transports[last'.sid].kind = "sse")
           => /\ RejectedByRoute(last')
              /\ transports' = transports
              /\ sseClients' = sseClients]_vars
    /\ [][(/\ last'.op = "POST /messages"
            /\ Has(transports, last'.sid)
            /\ transports[last'.sid].kind = "http")
           => /\ RejectedByRoute(last')
              /\ transports' = transports
              /\ sseClients' = sseClients]_vars
    /\ [][/\ \A k \in DOMAIN transports \ {last'.sid} :
                Has(transports', k) /\ transports'[k] = transports[k]
          /\ \A k \in DOMAIN transports' \ DOMAIN transports :
                k \notin created \cup opened
          /\ \A k \in DOMAIN sseClients \ {last'.sid} :
                Has(sseClients', k) /\ sseClients'[k] = sseClients[k]
          /\ \A k \in DOMAIN sseClients' \ DOMAIN sseClients :
                k \notin created \cup opened
          /\ last'.op \in SessionOps => sseClients' = sseClients
          /\ last'.op \in PushOps => transports' = transports]_vars

\* POST /mcp with the id of a registered legacy-SSE session, answered 400
\* while a Streamable-HTTP session and a push channel are registered too
C19_Witness ==
    /\ last.op = "POST /mcp"
    /\ Has(transports, last.sid)
    /\ transports[last.sid].kind = "sse"
    /\ last.status = 400
    /\ \E k \in DOMAIN transports : transports[k].kind = "http"
    /\ DOMAIN sseClients # {}

\* how many times x occurs in seq
Count(x, seq) == Cardinality({i \in 1..Len(seq) : seq[i] = x})

\* C20 as stated: on every tick of the time-update timer each registered
\* push channel is written exactly one time-update event, and nothing is
\* written when no channel is registered.
C20_EveryChannelWrittenOnce ==
    [][last'.op = "tick"
         => /\ \A c \in DOMAIN sseClients : Count(sseClients[c], last'.written) = 1
            /\ DOMAIN sseClients = {} => last'.written = << >>]_vars

\* C20, amended: on every tick each registered push channel is tried exactly
\* once; a channel whose write succeeds is written exactly one time-update
\* event, a channel whose write throws is written none, no other channel is
\* written, and nothing is written when no channel is registered.
C20_EveryChannelTriedOnce ==
    [][last'.op = "tick"
         => /\ \A c \in DOMAIN sseClients :
                  IF sseClients[c] \in broken
                  THEN Count(sseClients[c], last'.written) = 0
                          /\ sseClients[c] \in last'.failed
                  ELSE Count(sseClients[c], last'.written) = 1
                          /\ sseClients[c] \notin last'.failed
            /\ Len(last'.written) + Cardinality(last'.failed)
                  = Cardinality(DOMAIN sseClients)
            /\ (last'.event = "time-update") <=> (DOMAIN sseClients # {})
            /\ DOMAIN sseClients = {} =>
                  (last'.written = << >> /\ last'.failed = {})]_vars

\* a tick that wrote two channels and failed on a third
C20_Witness ==
    /\ last.op = "tick"
    /\ last.event = "time-update"
    /\ Len(last.written) = 2
    /\ Cardinality(last.failed) = 1

(***************************************************************************)
(* Further properties of the intent dispatcher.                            *)
(***************************************************************************)
TextKeywords == <<kwUppercase, kwLowercase, kwReverse, kwWordCount>>

TextOperationNames == <<"uppercase", "lowercase", "reverse", "word-count">>

\* C21: for a text classified as text-transform the operation is that of
\* the first of uppercase, lowercase, reverse, word count the text holds
\* and the operand is the text without that keyword, trimmed; when the
\* operand is empty the handler returns 'Please provide text to process'
\* and sends no call, otherwise it sends exactly one text-processor call
\* with that operation and operand.
C21_TextOperandChecked ==
    invoked = <<"handleTextProcessing">> =>
       LET lower == toLowerCase(content)
           k == CHOOSE i \in 1..4 :
                   /\ includes(lower, TextKeywords[i])
                   /\ \A j \in 1..(i - 1) : ~includes(lower, TextKeywords[j])
           operand == trim(RemoveAll(content, TextKeywords[k]))
       IN IF operand = << >>
          THEN handled = [calls |-> << >>, reply |-> ProvideText]
          ELSE /\ handled.reply = << >>
               /\ handled.calls = <<[name |-> "text-processor",
                                     operation |-> TextOperationNames[k],
                                     text |-> operand]>>
               /\ Head(operand) \notin Whitespace
               /\ operand[Len(operand)] \notin Whitespace

\* a text that is nothing but an operation keyword, answered with the
\* prompt and no call
C21_Witness ==
    /\ invoked = <<"handleTextProcessing">>
    /\ content = <<"U", "P", "P", "E", "R", "C", "A", "S", "E">>
    /\ handled.calls = << >>
    /\ handled.reply = ProvideText

C24_DisconnectDisconnects ==
    [][/\ (isConnected /\ client /\ ui'.op = "toggle")
          => /\ ~isConnected'
             /\ ~client'
             /\ messages' = Append(messages, [sender |-> "assistant", type |-> "text",
                                              content |-> Disconnected, re |-> << >>])
       /\ (~client /\ ui'.op \in {"send", "quick"})
          => /\ messages' = messages
             /\ inflight' = inflight]_vars

\* C25: a send that a connected facade accepts appends the user's message
\* first and is then either answered at once (one assistant message right
\* after it, isSending false) or awaits the server (isSending true, one
\* request in flight); the arrival of the response or of the failure appends
\* exactly one assistant message for that request and leaves isSending
\* false; and isSending is true only while a request is in flight.
C25_SendThenOneReply ==
    /\ [](isSending => inflight # << >>)
    /\ [][/\ ui'.op \in {"send", "quick"}
             => LET n == Len(messages)
                IN \/ messages' = messages /\ inflight' = inflight
                   \/ /\ client
                      /\ Len(messages') > n
                      /\ SubSeq(messages', 1, n) = messages
                      /\ messages'[n + 1].sender = "user"
                      /\ \/ /\ Len(messages') = n + 1
                            /\ isSending'
                            /\ inflight' = Append(inflight, messages'[n + 1].content)
                         \/ /\ Len(messages') = n + 2
                            /\ messages'[n + 2].sender = "assistant"
                            /\ messages'[n + 2].re = messages'[n + 1].content
                            /\ ~isSending'
                            /\ inflight' = inflight
          /\ (ui'.op = "send" /\ isConnected /\ client /\ ~isSending
                             /\ trim(currentMessage) # << >>)
             => /\ Len(messages') > Len(messages)
                /\ messages'[Len(messages) + 1].sender = "user"
          /\ ui'.op = "reply"
             => /\ messages' = Append(messages, messages'[Len(messages')])
                /\ messages'[Len(messages')].sender = "assistant"
                /\ messages'[Len(messages')].re = ui'.to
                /\ Len(inflight') = Len(inflight) - 1
                /\ ~isSending']_vars

\* the request of a send failed: the transcript ends with the user's
\* message and the one assistant message for it, and isSending is false
C25_Witness ==
    /\ ui.op = "reply"
    /\ ~ui.ok
    /\ ~isSending
    /\ inflight = << >>
    /\ Len(messages) >= 2
    /\ messages[Len(messages) - 1].sender = "user"
    /\ messages[Len(messages) - 1].content = ui.to
    /\ messages[Len(messages)].re = ui.to

\* the positions of the user messages and the replies among the first n
\* messages of the transcript (the rest are notices of the connection and
\* pushed time updates)
Exchange(n) ==
    {j \in 1..n : messages[j].sender = "user" \/ messages[j].re # << >>}

LastOf(S) == CHOOSE j \in S : \A i \in S : i <= j

\* C26 as stated: when a reply is appended, the message right before it is
\* the user message it answers.
C26_ReplyImmediatelyFollows ==
    [][ui'.op = "reply"
       => /\ messages # << >>
          /\ messages[Len(messages)].sender = "user"
          /\ messages[Len(messages)].content = ui'.to]_vars

\* C26, amended: among the user messages and replies of the transcript a
\* reply comes right after the user message it answers, with nothing but
\* notices of the connection and pushed updates between the two, or it is
\* the first of them (clearChat removed its user message while the request
\* was in flight); and a user message comes first or right after a reply.
C26_ReplyFollowsItsUserMessage ==
    \A k \in 1..Len(messages) :
       LET before == Exchange(k - 1)
       IN /\ (messages[k].re # << >> /\ before # {})
             => /\ messages[LastOf(before)].sender = "user"
                /\ messages[LastOf(before)].content = messages[k].re
          /\ (messages[k].sender = "user" /\ before # {})
             => messages[LastOf(before)].re # << >>

\* a reply that follows its user message with the notice of the connection
\* between the two
C26_Witness ==
    /\ ui.op = "reply"
    /\ Len(messages) = 4
    /\ messages[2].sender = "user"
    /\ messages[3].content = Connected
    /\ messages[4].re = messages[2].content

\* C30: when the health probe of connect() fails the facade stays
\* disconnected (isConnected false before and after, no client handle set),
\* the capability lists are unchanged, exactly one message, of type error,
\* is appended, and connect() rethrows to its caller, which is connecting no
\* longer; and isConnected turns true only in the step of a successful probe.
C30_FailedProbeStaysDisconnected ==
    [][/\ (ui'.op = "health" /\ ~ui'.ok)
          => /\ ~isConnected
             /\ ~isConnected'
             /\ client' = client
             /\ loaded' = loaded
             /\ messages' = Append(messages, [sender |-> "assistant", type |-> "error",
                                              content |-> ConnectFailed, re |-> << >>])
             /\ ui'.threw
             /\ ~isConnecting'
             /\ connectStage' = "idle"
       /\ (~isConnected /\ isConnected')
          => (ui'.op = "health" /\ ui'.ok /\ ~ui'.threw)]_vars

\* the probe failed for the second time: two error messages, still
\* disconnected
C30_Witness ==
    /\ ui.op = "health"
    /\ ~ui.ok
    /\ ~isConnected
    /\ Len(messages) = 3
    /\ messages[2].type = "error"
    /\ messages[3].type = "error"
    /\ loaded = {}

(***************************************************************************)
(* Further properties of the tool handlers.                                *)
(***************************************************************************)
\* C29: a call of crypto-prices returns price lines for exactly the symbols
\* it asked for, whatever an earlier call cached, and when it serves cached
\* data they are younger than the TTL.
C29_PricesForRequestedSymbols ==
    cryptoResult.called
       => /\ cryptoResult.symbols = cryptoResult.requested
          /\ cryptoResult.cached => cryptoResult.age < CryptoTtl

(***************************************************************************)
(* Further properties of the push channel.                                 *)
(***************************************************************************)
Receivers(o) == {o.written[i] : i \in DOMAIN o.written}

\* C27: GET /sse writes the connected event, with the session id under
\* which it has just registered the connection, to that connection and to
\* no other, in the step that opens it; and every other event (heartbeat,
\* time-update, *-update) is written only to connections opened in an
\* earlier step, so on every connection connected is the first event.
C27_ConnectedFirst ==
    [][/\ last'.op = "GET /sse"
          => /\ last'.event = "connected"
             /\ last'.issued \notin opened
             /\ last'.issued \in opened'
             /\ last'.written = <<last'.issued>>
             /\ Has(sseClients', last'.issued)
             /\ sseClients'[last'.issued] = last'.issued
       /\ last'.event # "connected" => Receivers(last') \subseteq opened
       /\ last'.event = "connected" => last'.op = "GET /sse"
       /\ opened \subseteq opened'
       /\ opened' # opened => last'.op = "GET /sse"]_vars

\* a heartbeat written to the second connection, which got its connected
\* event while the first connection was live
C27_Witness ==
    /\ last.op = "heartbeat"
    /\ last.written = <<2>>
    /\ opened = {1, 2}
    /\ Has(sseClients, 1)

\* C28: the connections with an active heartbeat timer are exactly the
\* registered push clients; a client that leaves the registry had its timer
\* active and has it cleared in the same step; and a heartbeat runs only
\* for a client that is registered.
C28_TimersFollowRegistry ==
    /\ [](heartbeats = DOMAIN sseClients)
    /\ [][/\ \A sid \in Ids :
               (sid \in DOMAIN sseClients /\ sid \notin DOMAIN sseClients')
                  => /\ sid \in heartbeats
                     /\ sid \notin heartbeats'
                     /\ last'.op \in {"sse close", "sse error", "heartbeat"}
                     /\ last'.sid = sid
          /\ last'.op = "heartbeat" => last'.sid \in DOMAIN sseClients]_vars

\* a heartbeat whose write failed: its client left the registry and its
\* timer is cleared, while another client keeps both
C28_Witness ==
    /\ last.op = "heartbeat"
    /\ last.failed = {last.sid}
    /\ last.sid \notin heartbeats
    /\ last.sid \notin DOMAIN sseClients
    /\ heartbeats # {}
    /\ heartbeats = DOMAIN sseClients

=============================================================================
